---- MODULE Spec2Model ----
(***************************************************************************)
(* BannkMint AI backend (server.py): the CSV upload endpoint               *)
(* upload_transactions_csv with its helpers verify_api_key,                *)
(* normalize_date, generate_hash and validate_csv_content, and the         *)
(* transactions collection it writes to.                                   *)
(*                                                                         *)
(* Python strings that the code inspects character by character (dates,    *)
(* amounts, descriptions, content types) are sequences of one-character    *)
(* strings.  A float is a record [kind, v]: kind "num" with v the value in *)
(* hundredths, or kind "nan".  A computation that may raise returns a      *)
(* record [ok, val, err].                                                  *)
(***************************************************************************)
EXTENDS Integers, Sequences, FiniteSets, TLC

\* ---------------------------------------------------------------- bounds
\* rows in one file
MaxRows == 2
\* rows read over all the uploads of a run: one upload at a time, one upload
\* at a time over files with every kind of row, two uploads interleaved
MaxTotalRows == 4
MaxTotalAllRows == 2
MaxTotalConcRows == 2
\* rows in one file of two interleaved uploads
MaxConcRows == 1
\* rows read in total by the uploads that vary the currency cell
MaxTotalCurRows == 2
\* rows read in total by the uploads that list calls run beside
MaxTotalQueryRows == 2
\* rows read in total by the uploads whose store calls can fail
MaxTotalFailRows == 3
\* rows read in total by the uploads whose fields hold the separator
MaxTotalPipeRows == 2

\* ------------------------------------------------------- program constants
MaxBytes == 10485760
ApiKey == "dev-key"
RequiredColumns == <<"date", "description", "amount">>

\* --------------------------------------------------------- string helpers
DigitChars == <<"0", "1", "2", "3", "4", "5", "6", "7", "8", "9">>

IsDigit(c) == \E i \in 1..10 : DigitChars[i] = c

DigitVal(c) == (CHOOSE i \in 1..10 : DigitChars[i] = c) - 1

AllDigits(s) == Len(s) > 0 /\ \A i \in 1..Len(s) : IsDigit(s[i])

RECURSIVE StrToNat(_)
StrToNat(s) ==
    IF Len(s) = 0 THEN 0
    ELSE 10 * StrToNat(SubSeq(s, 1, Len(s) - 1)) + DigitVal(s[Len(s)])

RECURSIVE NatToStr(_)
NatToStr(n) ==
    IF n < 10 THEN <<DigitChars[n + 1]>>
    ELSE Append(NatToStr(n \div 10), DigitChars[(n % 10) + 1])

Contains(s, c) == \E i \in 1..Len(s) : s[i] = c

\* str.split(sep) for a one-character separator
RECURSIVE SplitFrom(_, _, _, _)
SplitFrom(s, sep, i, cur) ==
    IF i > Len(s) THEN <<cur>>
    ELSE IF s[i] = sep THEN <<cur>> \o SplitFrom(s, sep, i + 1, <<>>)
    ELSE SplitFrom(s, sep, i + 1, Append(cur, s[i]))

split(s, sep) == SplitFrom(s, sep, 1, <<>>)

\* str.zfill(width): zeros go after a leading sign
RECURSIVE Zeros(_)
Zeros(n) == IF n <= 0 THEN <<>> ELSE <<"0">> \o Zeros(n - 1)

zfill(s, width) ==
    IF Len(s) >= width THEN s
    ELSE IF Len(s) > 0 /\ s[1] \in {"+", "-"}
         THEN <<s[1]>> \o Zeros(width - Len(s)) \o Tail(s)
         ELSE Zeros(width - Len(s)) \o s

\* str.strip(): drop leading and trailing blanks
RECURSIVE LStrip(_)
LStrip(s) == IF Len(s) > 0 /\ s[1] = " " THEN LStrip(Tail(s)) ELSE s

RECURSIVE RStrip(_)
RStrip(s) ==
    IF Len(s) > 0 /\ s[Len(s)] = " " THEN RStrip(SubSeq(s, 1, Len(s) - 1)) ELSE s

strip(s) == RStrip(LStrip(s))

\* str.lower() on the letters the content types use
LowerChar(c) ==
    CASE c = "C" -> "c" [] c = "S" -> "s" [] c = "V" -> "v"
      [] c = "T" -> "t" [] c = "E" -> "e" [] c = "X" -> "x"
      [] OTHER -> c

lower(s) == [i \in 1..Len(s) |-> LowerChar(s[i])]

\* Python's  sub in s
HasSubstring(s, sub) ==
    \E i \in 1..(Len(s) - Len(sub) + 1) : SubSeq(s, i, i + Len(sub) - 1) = sub

\* ------------------------------------------------------------ return values
Ok(v) == [ok |-> TRUE, val |-> v, err |-> <<>>]
Raise(e) == [ok |-> FALSE, val |-> <<>>, err |-> e]

NaN == [kind |-> "nan", v |-> 0]
Num(v) == [kind |-> "num", v |-> v]
NoneVal == [kind |-> "none", v |-> 0]

\* the string pandas/str() gives for a missing cell
StrNan == <<"n", "a", "n">>

\* ------------------------------------------------------------------ float()
\* float(cell) for a cell read by pandas: an empty cell is NaN and float(NaN)
\* is nan; a decimal literal [sign] digits [. digits] is its value; any other
\* text raises ValueError.  Values are kept in hundredths.
FracVal(f) == IF Len(f) = 1 THEN 10 * StrToNat(f) ELSE StrToNat(f)

UnsignedVal(s) ==
    LET parts == split(s, ".")
    IN  IF Len(parts) = 1 /\ AllDigits(parts[1])
          THEN Ok(100 * StrToNat(parts[1]))
        ELSE IF Len(parts) = 2 /\ AllDigits(parts[1]) /\ AllDigits(parts[2])
                /\ Len(parts[2]) <= 2
          THEN Ok(100 * StrToNat(parts[1]) + FracVal(parts[2]))
        ELSE Raise(<<"could not convert string to float", s>>)

float(cell) ==
    IF Len(cell) = 0 THEN Ok(NaN)
    ELSE LET neg  == cell[1] = "-"
             body == IF cell[1] \in {"+", "-"} THEN Tail(cell) ELSE cell
             u    == UnsignedVal(body)
         IN  IF u.ok THEN Ok(Num(IF neg THEN 0 - u.val ELSE u.val))
             ELSE Raise(<<"could not convert string to float", cell>>)

\* str(x) / f"{x}" of a Python float: shortest repr, always with a fraction
FloatStr(x) ==
    IF x.kind = "nan" THEN StrNan
    ELSE LET a    == IF x.v < 0 THEN 0 - x.v ELSE x.v
             sign == IF x.v < 0 THEN <<"-">> ELSE <<>>
             h    == a % 100
             frac == IF h % 10 = 0 THEN NatToStr(h \div 10)
                     ELSE zfill(NatToStr(h), 2)
         IN  sign \o NatToStr(a \div 100) \o <<".">> \o frac

\* str(cell) of a cell read by pandas: a missing cell is NaN, printed "nan"
CellStr(cell) == IF Len(cell) = 0 THEN StrNan ELSE cell

\* pd.notna(cell)
notna(cell) == Len(cell) > 0

\* ------------------------------------------------------------ dateutil parse
IsLeap(y) == (y % 4 = 0 /\ y % 100 # 0) \/ y % 400 = 0

DaysInMonth(y, m) ==
    IF m = 2 THEN (IF IsLeap(y) THEN 29 ELSE 28)
    ELSE IF m \in {4, 6, 9, 11} THEN 30 ELSE 31

\* date_parser.parse(date_str) on the strings the model feeds it: a date
\* YYYY-MM-DD or YYYY/MM/DD that names a real calendar day parses, any other
\* string of the bounded inputs raises ParserError.
date_parser_parse(s) ==
    LET parts == IF Contains(s, "/") THEN split(s, "/") ELSE split(s, "-")
    IN  IF /\ Len(parts) = 3
           /\ Len(parts[1]) = 4 /\ Len(parts[2]) = 2 /\ Len(parts[3]) = 2
           /\ AllDigits(parts[1]) /\ AllDigits(parts[2]) /\ AllDigits(parts[3])
           /\ StrToNat(parts[1]) >= 1
           /\ StrToNat(parts[2]) \in 1..12
           /\ StrToNat(parts[3]) \in 1..DaysInMonth(StrToNat(parts[1]), StrToNat(parts[2]))
        THEN Ok([year  |-> StrToNat(parts[1]),
                 month |-> StrToNat(parts[2]),
                 day   |-> StrToNat(parts[3])])
        ELSE Raise(<<"Unknown string format", s>>)

\* date_obj.strftime('%Y-%m-%d')
strftime(d) ==
    zfill(NatToStr(d.year), 4) \o <<"-">> \o zfill(NatToStr(d.month), 2)
        \o <<"-">> \o zfill(NatToStr(d.day), 2)

\* -------------------------------------------------------------- server.py
ParseAndFormat(date_str) ==
    LET date_obj == date_parser_parse(date_str)
    IN  IF date_obj.ok THEN Ok(strftime(date_obj.val))
        ELSE Raise(<<"Invalid date format", date_str>>)

normalize_date(date_str) ==
    IF Contains(date_str, "/")
    THEN LET parts == split(date_str, "/")
         IN  IF Len(parts) = 3 /\ Len(parts[3]) = 4
             THEN Ok(parts[3] \o <<"-">> \o zfill(parts[2], 2)
                        \o <<"-">> \o zfill(parts[1], 2))
             ELSE ParseAndFormat(date_str)
    ELSE ParseAndFormat(date_str)

\* a key string that leaves the currency out
hash_string_no_currency(date, description, amount, currency) ==
    date \o <<"|">> \o description \o <<"|">> \o FloatStr(amount)

hash_string(date, description, amount, currency) ==
    date \o <<"|">> \o description \o <<"|">> \o FloatStr(amount)
        \o <<"|">> \o currency

\* hashlib.md5(...).hexdigest(): an ideal digest, equal exactly for equal input
md5(s) == [md5 |-> s]

generate_hash(date, description, amount, currency) ==
    md5(hash_string(date, description, amount, currency))

\* a validator that reports only the first missing column
validate_csv_content_first(columns) ==
    LET missing_cols == SelectSeq(RequiredColumns, LAMBDA col : col \notin columns)
    IN  IF Len(missing_cols) > 0
        THEN << [msg |-> "Missing required columns", cols |-> <<missing_cols[1]>>] >>
        ELSE <<>>

validate_csv_content(columns) ==
    LET missing_cols == SelectSeq(RequiredColumns, LAMBDA col : col \notin columns)
    IN  IF Len(missing_cols) > 0
        THEN << [msg |-> "Missing required columns", cols |-> missing_cols] >>
        ELSE <<>>

HTTPException(status, detail) == [status |-> status, detail |-> detail]

\* Header(...) is a required header: without it the framework answers 422
\* before the function body runs
verify_api_key(r) ==
    IF ~r.has_key THEN Raise(HTTPException(422, <<"Field required">>))
    ELSE IF r.key # ApiKey THEN Raise(HTTPException(401, <<"Invalid API key">>))
    ELSE Ok(r.key)

\* a content-type check that only asks for a declared type
IsCsvTypeAny(content_type) == Len(content_type) > 0

IsCsvType(content_type) ==
    Len(content_type) > 0 /\ HasSubstring(lower(content_type), <<"c", "s", "v">>)

\* a size check that also turns away a file of exactly the limit
TooLargeOrEqual(size) == size # 0 /\ size >= MaxBytes

TooLarge(size) == size # 0 /\ size > MaxBytes

\* lines 165-175: the fields of one data row, or the first exception raised
ExtractRow(columns, row) ==
    LET date_str    == strip(CellStr(row.date))
        description == strip(CellStr(row.description))
        amount      == float(row.amount)
        cur_raw     == IF "currency" \in columns
                       THEN strip(CellStr(row.currency))
                       ELSE <<"U", "S", "D">>
        currency    == IF Len(cur_raw) = 0 THEN <<"U", "S", "D">> ELSE cur_raw
        has_balance == "balance" \in columns /\ notna(row.balance)
        balance     == IF has_balance THEN float(row.balance) ELSE Ok(NoneVal)
        normalized  == normalize_date(date_str)
    IN  IF ~amount.ok THEN Raise(amount.err)
        ELSE IF ~balance.ok THEN Raise(balance.err)
        ELSE IF ~normalized.ok THEN Raise(normalized.err)
        ELSE Ok([date        |-> normalized.val,
                 description |-> description,
                 amount      |-> amount.val,
                 currency    |-> currency,
                 balance     |-> balance.val,
                 hash_key    |-> generate_hash(normalized.val, description,
                                               amount.val, currency)])

\* a Transaction that keeps the digest of the date alone as its hash_key
TransactionDateKey(f, n) ==
    [id          |-> n,
     date        |-> f.date,
     description |-> f.description,
     amount      |-> f.amount,
     currency    |-> f.currency,
     balance     |-> f.balance,
     created_at  |-> n,
     hash_key    |-> md5(f.date)]

\* Transaction(...).dict(): id from uuid4, created_at from the clock
Transaction(f, n) ==
    [id          |-> n,
     date        |-> f.date,
     description |-> f.description,
     amount      |-> f.amount,
     currency    |-> f.currency,
     balance     |-> f.balance,
     created_at  |-> n,
     hash_key    |-> f.hash_key]

\* a lookup that matches the key against the id field and so finds nothing
find_one_by_id(st, h) ==
    LET hits == {i \in 1..Len(st) : md5(<<st[i].id>>) = h}
    IN  IF hits = {} THEN <<>>
        ELSE << st[CHOOSE i \in hits : \A j \in hits : i <= j] >>

\* db.transactions.find_one({"hash_key": h}): the first match, or nothing
find_one(st, h) ==
    LET hits == {i \in 1..Len(st) : st[i].hash_key = h}
    IN  IF hits = {} THEN <<>>
        ELSE << st[CHOOSE i \in hits : \A j \in hits : i <= j] >>

\* a write that replaces the stored document of the same day and description
replace_one(st, docs) ==
    LET same(i) == st[i].date = docs[1].date /\ st[i].description = docs[1].description
    IN  IF \E i \in 1..Len(st) : same(i)
        THEN [i \in 1..Len(st) |-> IF same(i) THEN docs[1] ELSE st[i]]
        ELSE st \o docs

\* db.transactions.insert_one(doc): the document is added to the collection
insert_one(st, docs) == st \o docs

\* a row number that counts the data rows from one and forgets the header
RowErrorOneBased(index, e) == [row |-> index + 1, err |-> e]

\* f"Row {index + 2}: {str(e)}" for the zero-based DataFrame index
RowError(index, e) == [row |-> index + 2, err |-> e]

\* ------------------------------------------------------------------ inputs
Procs == {1, 2}

D_2024_01_31 == <<"2", "0", "2", "4", "-", "0", "1", "-", "3", "1">>
D_31_01_2024 == <<"3", "1", "/", "0", "1", "/", "2", "0", "2", "4">>
D_2024_02_05 == <<"2", "0", "2", "4", "-", "0", "2", "-", "0", "5">>
D_not_a_date == <<"n", "o", "t", "-", "a", "-", "d", "a", "t", "e">>
USD == <<"U", "S", "D">>
EUR == <<"E", "U", "R">>

Row(d, desc, amt, cur, bal) ==
    [date |-> d, description |-> desc, amount |-> amt, currency |-> cur,
     balance |-> bal]

\* 2024-01-31,a,12.5,USD,
RowA == Row(D_2024_01_31, <<"a">>, <<"1", "2", ".", "5">>, USD, <<>>)
\* 31/01/2024, a,12.50,USD,7   (the same transaction as RowA, written differently)
RowA2 == Row(D_31_01_2024, <<" ", "a">>, <<"1", "2", ".", "5", "0">>, USD, <<"7">>)
\* 2024-02-05,b,-3,EUR,
RowB == Row(D_2024_02_05, <<"b">>, <<"-", "3">>, EUR, <<>>)
\* not-a-date,b,-3,EUR,
RowBadDate == Row(D_not_a_date, <<"b">>, <<"-", "3">>, EUR, <<>>)
\* 2024-02-05,c,x,USD,
RowBadAmount == Row(D_2024_02_05, <<"c">>, <<"x">>, USD, <<>>)
\* 2024-02-05,c,,USD,
RowNoAmount == Row(D_2024_02_05, <<"c">>, <<>>, USD, <<>>)

\* 2024-02-05,c,4,,       (the currency cell is empty)
RowNoCurrency == Row(D_2024_02_05, <<"c">>, <<"4">>, <<>>, <<>>)
\* 2024-02-05,d,4, ,      (the currency cell is one space)
RowBlankCurrency == Row(D_2024_02_05, <<"d">>, <<"4">>, <<" ">>, <<>>)
\* 2024-02-05,e,4, EUR ,
RowPadCurrency == Row(D_2024_02_05, <<"e">>, <<"4">>, <<" ", "E", "U", "R", " ">>, <<>>)

\* the date strings normalize_date is called with on its own
D_5_2_2024 == <<"5", "/", "2", "/", "2", "0", "2", "4">>
D_a_b_2024 == <<"a", "/", "b", "/", "2", "0", "2", "4">>
D_123_1_2024 == <<"1", "2", "3", "/", "1", "/", "2", "0", "2", "4">>
D_2024_01_31_slash == <<"2", "0", "2", "4", "/", "0", "1", "/", "3", "1">>
D_2024_02_30 == <<"2", "0", "2", "4", "-", "0", "2", "-", "3", "0">>

DateStrings ==
    {D_2024_01_31, D_31_01_2024, D_2024_02_05, D_not_a_date, D_5_2_2024,
     D_a_b_2024, D_123_1_2024, D_2024_01_31_slash, D_2024_02_30, StrNan, <<>>}

\* the argument tuples generate_hash is called with on its own
HashArgs ==
    [date        : {D_2024_01_31, D_2024_02_05},
     description : {<<"a">>, <<"b">>, <<"a", "|", "b">>},
     amount      : {Num(1250), Num(-300), NaN},
     currency    : {USD, EUR}]

\* the header names a file's first line is made of
HeaderNames ==
    {"date", "description", "amount", "currency", "balance", "Date", "AMOUNT"}

\* 2024-01-31,x,1,2.0|USD,     (the currency cell holds the separator)
RowPipeCurrency ==
    Row(D_2024_01_31, <<"x">>, <<"1">>, <<"2", ".", "0", "|", "U", "S", "D">>, <<>>)
\* 2024-01-31,x|1.0,2,USD,     (the description holds the separator)
RowPipeDescription ==
    Row(D_2024_01_31, <<"x", "|", "1", ".", "0">>, <<"2">>, USD, <<>>)

\* the rows of the files sent one after another
Rows == {RowA, RowA2, RowB, RowBadDate}

\* the rows of the files that exercise every way a row can go
AllRows == {RowA, RowA2, RowB, RowBadDate, RowBadAmount, RowNoAmount}

AllColumns == {"date", "description", "amount", "currency", "balance"}

ColumnSets == {AllColumns, {"date", "description", "currency", "balance"}}

RowSeqs == UNION {[1..n -> Rows] : n \in 0..MaxRows}

Files == [columns : ColumnSets, rows : RowSeqs]

RowFiles ==
    [columns : ColumnSets,
     rows : UNION {[1..n -> AllRows] : n \in 0..MaxRows}]

\* the files with every kind of currency cell, with and without the column
CurrencyRows == {RowA, RowNoCurrency, RowBlankCurrency, RowPadCurrency}

CurrencyFiles ==
    [columns : {AllColumns, {"date", "description", "amount"}},
     rows : UNION {[1..n -> CurrencyRows] : n \in 0..MaxRows}]

\* the files two concurrent clients send
ConcRows == {RowA, RowA2, RowB}

ConcFiles ==
    [columns : {AllColumns},
     rows : UNION {[1..n -> ConcRows] : n \in 0..MaxConcRows}]

TextCsv == <<"t", "e", "x", "t", "/", "c", "s", "v">>
TextCsvUpper == <<"T", "E", "X", "T", "/", "C", "S", "V">>
TextPlain == <<"t", "e", "x", "t", "/", "p", "l", "a", "i", "n">>

ContentTypes == {TextCsv, TextCsvUpper, TextPlain, <<>>}

Sizes == {MaxBytes, MaxBytes + 1}

Requests ==
    [has_key : {TRUE}, key : {ApiKey, "invalid-key"}, content_type : ContentTypes,
     size : Sizes]
    \cup [has_key : {FALSE}, key : {""}, content_type : ContentTypes, size : Sizes]

\* what two concurrent clients send: a valid request, or one without a key
ConcRequests ==
    {[has_key |-> TRUE, key |-> ApiKey, content_type |-> TextCsv, size |-> MaxBytes],
     [has_key |-> FALSE, key |-> "", content_type |-> TextCsv, size |-> MaxBytes]}

NoReq == [has_key |-> FALSE, key |-> "", content_type |-> <<>>, size |-> 0]
NoFile == [columns |-> {}, rows |-> <<>>]
NoResp == HTTPException(0, <<>>)
NoTxn == <<>>
NoCall == [file |-> NoFile, before |-> <<>>, outcomes |-> <<>>, resp |-> NoResp]
NoProbe == [fn |-> "none", args |-> <<>>, done |-> FALSE, out |-> <<>>]
NoQuery == [pc |-> "idle"]

\* ------------------------------------------------------------------- state
VARIABLES
    store,       \* db.transactions: the documents in insertion order
    txnSeq,      \* Transaction objects built so far (uuid4 and clock source)
    rowsRead,    \* data rows read from request bodies so far
    pc,          \* per request slot: idle, read, loop, insert, done
    req,         \* headers and upload metadata of the request
    file,        \* the parsed DataFrame, once file.read() has returned
    before,      \* the store when the request arrived
    idx,         \* position of the row loop (1-based; DataFrame index + 1)
    imported,
    skipped,
    row_errors,
    outcomes,    \* what happened to each row attempted so far, in order
    pending,     \* the Transaction built and awaiting insert_one
    resp,        \* the response, once produced
    prev,        \* the upload that finished last, if it reached the row loop
    probe,       \* a helper function called on its own: arguments and result
    qry          \* the get_transactions call in progress

vars == <<store, txnSeq, rowsRead, pc, req, file, before, idx, imported, skipped,
          row_errors, outcomes, pending, resp, prev, probe, qry>>

Init ==
    /\ store = <<>>
    /\ txnSeq = 0
    /\ rowsRead = 0
    /\ pc = [p \in Procs |-> "idle"]
    /\ req = [p \in Procs |-> NoReq]
    /\ file = [p \in Procs |-> NoFile]
    /\ before = [p \in Procs |-> <<>>]
    /\ idx = [p \in Procs |-> 1]
    /\ imported = [p \in Procs |-> 0]
    /\ skipped = [p \in Procs |-> 0]
    /\ row_errors = [p \in Procs |-> <<>>]
    /\ outcomes = [p \in Procs |-> <<>>]
    /\ pending = [p \in Procs |-> NoTxn]
    /\ resp = [p \in Procs |-> NoResp]
    /\ prev = NoCall
    /\ probe = NoProbe
    /\ qry = NoQuery

\* ----------------------------------------------------------------- actions
\* lines 133-146: the request arrives; dependencies and the checks made before
\* the body is read
Start(p, requests) ==
    /\ pc[p] = "idle"
    /\ \E r \in requests :
         LET auth == verify_api_key(r)
             out  == IF ~auth.ok
                       THEN auth.err
                     ELSE IF ~IsCsvType(r.content_type)
                       THEN HTTPException(415, <<"Only CSV files are supported">>)
                     ELSE IF TooLarge(r.size)
                       THEN HTTPException(413, <<"File size exceeds 10MB limit">>)
                     ELSE NoResp
         IN  /\ req' = [req EXCEPT ![p] = r]
             /\ resp' = [resp EXCEPT ![p] = out]
             /\ pc' = [pc EXCEPT ![p] = IF out = NoResp THEN "read" ELSE "done"]
    /\ before' = [before EXCEPT ![p] = store]
    /\ UNCHANGED <<store, txnSeq, rowsRead, file, idx, imported, skipped, row_errors,
                   outcomes, pending, prev>>
    /\ UNCHANGED <<probe, qry>>

\* lines 150-160: read and parse the body, validate the columns
ReadParse(p, files, maxTotal) ==
    /\ pc[p] = "read"
    /\ \E f \in files :
         LET validation_errors == validate_csv_content(f.columns)
         IN  /\ rowsRead + Len(f.rows) <= maxTotal
             /\ rowsRead' = rowsRead + Len(f.rows)
             /\ file' = [file EXCEPT ![p] = f]
             /\ IF Len(validation_errors) > 0
                THEN /\ resp' = [resp EXCEPT ![p] =
                                   HTTPException(422, validation_errors)]
                     /\ pc' = [pc EXCEPT ![p] = "done"]
                ELSE /\ resp' = resp
                     /\ pc' = [pc EXCEPT ![p] = "loop"]
    /\ imported' = [imported EXCEPT ![p] = 0]
    /\ skipped' = [skipped EXCEPT ![p] = 0]
    /\ row_errors' = [row_errors EXCEPT ![p] = <<>>]
    /\ idx' = [idx EXCEPT ![p] = 1]
    /\ UNCHANGED <<store, txnSeq, req, before, outcomes, pending, prev>>
    /\ UNCHANGED <<probe, qry>>

\* a row error that is swallowed instead of collected
RowFailsSilent(p, e) ==
    /\ row_errors' = row_errors
    /\ outcomes' = [outcomes EXCEPT ![p] = Append(@, "error")]
    /\ idx' = [idx EXCEPT ![p] = @ + 1]
    /\ UNCHANGED <<pc, skipped, pending, txnSeq>>

\* a row error that ends the loop instead of going on to the next row
RowFailsAbort(p, e) ==
    /\ row_errors' = [row_errors EXCEPT ![p] = Append(@, RowError(idx[p] - 1, e))]
    /\ outcomes' = [outcomes EXCEPT ![p] = Append(@, "error")]
    /\ idx' = [idx EXCEPT ![p] = Len(file[p].rows) + 1]
    /\ UNCHANGED <<pc, skipped, pending, txnSeq>>

\* lines 197-198: the row raised; the error is collected and the loop goes on
RowFails(p, e) ==
    /\ row_errors' = [row_errors EXCEPT ![p] = Append(@, RowError(idx[p] - 1, e))]
    /\ outcomes' = [outcomes EXCEPT ![p] = Append(@, "error")]
    /\ idx' = [idx EXCEPT ![p] = @ + 1]
    /\ UNCHANGED <<pc, skipped, pending, txnSeq>>

\* a duplicate row that is passed over without being counted
RowSkipsUncounted(p) ==
    /\ skipped' = skipped
    /\ outcomes' = [outcomes EXCEPT ![p] = Append(@, "skipped")]
    /\ idx' = [idx EXCEPT ![p] = @ + 1]
    /\ UNCHANGED <<pc, row_errors, pending, txnSeq>>

\* lines 179-181: the hash_key is already stored
RowSkips(p) ==
    /\ skipped' = [skipped EXCEPT ![p] = @ + 1]
    /\ outcomes' = [outcomes EXCEPT ![p] = Append(@, "skipped")]
    /\ idx' = [idx EXCEPT ![p] = @ + 1]
    /\ UNCHANGED <<pc, row_errors, pending, txnSeq>>

\* lines 183-194: build the Transaction and call insert_one
RowBuilds(p, f) ==
    /\ pending' = [pending EXCEPT ![p] = <<Transaction(f, txnSeq + 1)>>]
    /\ txnSeq' = txnSeq + 1
    /\ pc' = [pc EXCEPT ![p] = "insert"]
    /\ UNCHANGED <<skipped, row_errors, outcomes, idx>>

\* lines 162-198: one row, up to the answer of find_one
RowLookup(p) ==
    /\ pc[p] = "loop"
    /\ idx[p] <= Len(file[p].rows)
    /\ LET r == ExtractRow(file[p].columns, file[p].rows[idx[p]])
       IN  IF ~r.ok THEN RowFails(p, r.err)
           ELSE IF Len(find_one(store, r.val.hash_key)) > 0 THEN RowSkips(p)
           ELSE RowBuilds(p, r.val)
    /\ UNCHANGED <<store, rowsRead, req, file, before, imported, resp, prev>>
    /\ UNCHANGED <<probe, qry>>

\* an insert against a unique index on hash_key: a conflict counts as a skip
RowInsertUnique(p) ==
    /\ pc[p] = "insert"
    /\ IF pending[p][1].hash_key \in {store[i].hash_key : i \in 1..Len(store)}
       THEN /\ store' = store
            /\ skipped' = [skipped EXCEPT ![p] = @ + 1]
            /\ outcomes' = [outcomes EXCEPT ![p] = Append(@, "skipped")]
            /\ imported' = imported
       ELSE /\ store' = store \o pending[p]
            /\ imported' = [imported EXCEPT ![p] = @ + 1]
            /\ outcomes' = [outcomes EXCEPT ![p] = Append(@, "imported")]
            /\ skipped' = skipped
    /\ idx' = [idx EXCEPT ![p] = @ + 1]
    /\ pending' = [pending EXCEPT ![p] = NoTxn]
    /\ pc' = [pc EXCEPT ![p] = "loop"]
    /\ UNCHANGED <<txnSeq, rowsRead, req, file, before, row_errors, resp, prev>>
    /\ UNCHANGED <<probe, qry>>

\* an insert that is held back once the upload has collected a row error
RowInsertUnlessErrors(p) ==
    /\ pc[p] = "insert"
    /\ store' = IF Len(row_errors[p]) > 0 THEN store ELSE store \o pending[p]
    /\ imported' = [imported EXCEPT ![p] = @ + 1]
    /\ outcomes' = [outcomes EXCEPT ![p] = Append(@, "imported")]
    /\ idx' = [idx EXCEPT ![p] = @ + 1]
    /\ pending' = [pending EXCEPT ![p] = NoTxn]
    /\ pc' = [pc EXCEPT ![p] = "loop"]
    /\ UNCHANGED <<txnSeq, rowsRead, req, file, before, skipped, row_errors, resp,
                   prev>>
    /\ UNCHANGED <<probe, qry>>

\* lines 194-195: insert_one takes effect, the row counts as imported
RowInsert(p) ==
    /\ pc[p] = "insert"
    /\ store' = insert_one(store, pending[p])
    /\ imported' = [imported EXCEPT ![p] = @ + 1]
    /\ outcomes' = [outcomes EXCEPT ![p] = Append(@, "imported")]
    /\ idx' = [idx EXCEPT ![p] = @ + 1]
    /\ pending' = [pending EXCEPT ![p] = NoTxn]
    /\ pc' = [pc EXCEPT ![p] = "loop"]
    /\ UNCHANGED <<txnSeq, rowsRead, req, file, before, skipped, row_errors, resp,
                   prev>>
    /\ UNCHANGED <<probe, qry>>

\* a response that reports only the first row error
FinishFirstError(p) ==
    /\ pc[p] = "loop"
    /\ idx[p] > Len(file[p].rows)
    /\ resp' = [resp EXCEPT ![p] =
                  IF Len(row_errors[p]) > 0
                  THEN HTTPException(422, <<row_errors[p][1]>>)
                  ELSE [status |-> 200,
                        detail |-> [imported |-> imported[p],
                                    skipped  |-> skipped[p]]]]
    /\ pc' = [pc EXCEPT ![p] = "done"]
    /\ UNCHANGED <<store, txnSeq, rowsRead, req, file, before, idx, imported,
                   skipped, row_errors, outcomes, pending, prev>>
    /\ UNCHANGED <<probe, qry>>

\* lines 200-205: after the last row
Finish(p) ==
    /\ pc[p] = "loop"
    /\ idx[p] > Len(file[p].rows)
    /\ resp' = [resp EXCEPT ![p] =
                  IF Len(row_errors[p]) > 0
                  THEN HTTPException(422, row_errors[p])
                  ELSE [status |-> 200,
                        detail |-> [imported |-> imported[p],
                                    skipped  |-> skipped[p]]]]
    /\ pc' = [pc EXCEPT ![p] = "done"]
    /\ UNCHANGED <<store, txnSeq, rowsRead, req, file, before, idx, imported,
                   skipped, row_errors, outcomes, pending, prev>>
    /\ UNCHANGED <<probe, qry>>

\* the request passed every check made before the row loop
ReachedLoop(p) ==
    file[p] # NoFile /\ Len(validate_csv_content(file[p].columns)) = 0

\* the response has gone out; the slot is free for the next request
Return(p) ==
    /\ pc[p] = "done"
    /\ prev' = IF ReachedLoop(p)
               THEN [file     |-> file[p],
                     before   |-> before[p],
                     outcomes |-> outcomes[p],
                     resp     |-> resp[p]]
               ELSE NoCall
    /\ pc' = [pc EXCEPT ![p] = "idle"]
    /\ req' = [req EXCEPT ![p] = NoReq]
    /\ file' = [file EXCEPT ![p] = NoFile]
    /\ before' = [before EXCEPT ![p] = <<>>]
    /\ idx' = [idx EXCEPT ![p] = 1]
    /\ imported' = [imported EXCEPT ![p] = 0]
    /\ skipped' = [skipped EXCEPT ![p] = 0]
    /\ row_errors' = [row_errors EXCEPT ![p] = <<>>]
    /\ outcomes' = [outcomes EXCEPT ![p] = <<>>]
    /\ pending' = [pending EXCEPT ![p] = NoTxn]
    /\ resp' = [resp EXCEPT ![p] = NoResp]
    /\ UNCHANGED <<store, txnSeq, rowsRead>>
    /\ UNCHANGED <<probe, qry>>

Step(p, requests, files, maxTotal) ==
    \/ Start(p, requests)
    \/ ReadParse(p, files, maxTotal)
    \/ RowLookup(p)
    \/ RowInsert(p)
    \/ Finish(p)
    \/ Return(p)

\* uploads executed one at a time
Next == Step(1, Requests, Files, MaxTotalRows)

Spec == Init /\ [][Next]_vars

\* one upload at a time, over files with every kind of row
NextRows == Step(1, Requests, RowFiles, MaxTotalAllRows)

SpecRows == Init /\ [][NextRows]_vars

\* uploads of two clients interleaved at the awaits
NextConc == \E p \in Procs : Step(p, ConcRequests, ConcFiles, MaxTotalConcRows)

SpecConc == Init /\ [][NextConc]_vars

\* ------------------------------------------------------- a failing store
\* str(e) of the exception a failed store call raises
StoreError == <<"store failure">>

\* line 178: find_one raises; the row's except clause (lines 197-198) takes it
FindOneFails(p) ==
    /\ pc[p] = "loop"
    /\ idx[p] <= Len(file[p].rows)
    /\ ExtractRow(file[p].columns, file[p].rows[idx[p]]).ok
    /\ RowFails(p, StoreError)
    /\ UNCHANGED <<store, rowsRead, req, file, before, imported, resp, prev>>
    /\ UNCHANGED <<probe, qry>>

\* line 194: insert_one raises and stores nothing; the same except clause
InsertOneFails(p) ==
    /\ pc[p] = "insert"
    /\ row_errors' = [row_errors EXCEPT ![p] = Append(@, RowError(idx[p] - 1,
                                                                 StoreError))]
    /\ outcomes' = [outcomes EXCEPT ![p] = Append(@, "error")]
    /\ idx' = [idx EXCEPT ![p] = @ + 1]
    /\ pending' = [pending EXCEPT ![p] = NoTxn]
    /\ pc' = [pc EXCEPT ![p] = "loop"]
    /\ UNCHANGED <<store, txnSeq, rowsRead, req, file, before, imported, skipped,
                   resp, prev>>
    /\ UNCHANGED <<probe, qry>>

\* one upload at a time against a store whose calls can fail
NextFail ==
    \/ Step(1, ConcRequests, ConcFiles, MaxTotalFailRows)
    \/ FindOneFails(1)
    \/ InsertOneFails(1)

SpecFail == Init /\ [][NextFail]_vars

\* one upload at a time, over files that vary the currency cell and column
NextCur == Step(1, ConcRequests, CurrencyFiles, MaxTotalCurRows)

SpecCur == Init /\ [][NextCur]_vars

\* one upload at a time, over files whose fields hold the '|' separator
PipeRows == {RowA, RowPipeCurrency, RowPipeDescription}

PipeFiles ==
    [columns : {AllColumns},
     rows : UNION {[1..n -> PipeRows] : n \in 0..MaxRows}]

NextPipe == Step(1, ConcRequests, PipeFiles, MaxTotalPipeRows)

SpecPipe == Init /\ [][NextPipe]_vars

\* ------------------------------------------- helper functions on their own
UploadIdle ==
    /\ store = <<>>
    /\ txnSeq = 0
    /\ rowsRead = 0
    /\ pc = [p \in Procs |-> "idle"]
    /\ req = [p \in Procs |-> NoReq]
    /\ file = [p \in Procs |-> NoFile]
    /\ before = [p \in Procs |-> <<>>]
    /\ idx = [p \in Procs |-> 1]
    /\ imported = [p \in Procs |-> 0]
    /\ skipped = [p \in Procs |-> 0]
    /\ row_errors = [p \in Procs |-> <<>>]
    /\ outcomes = [p \in Procs |-> <<>>]
    /\ pending = [p \in Procs |-> NoTxn]
    /\ resp = [p \in Procs |-> NoResp]
    /\ prev = NoCall

\* one call of a helper, with arguments drawn from the bounded inputs
InitFn ==
    /\ UploadIdle
    /\ qry = NoQuery
    /\ probe \in [fn : {"normalize_date"}, args : DateStrings, done : {FALSE},
                  out : {<<>>}]
           \cup [fn : {"generate_hash"}, args : HashArgs \X HashArgs,
                  done : {FALSE}, out : {<<>>}]
           \cup [fn : {"validate_csv_content"}, args : SUBSET HeaderNames,
                  done : {FALSE}, out : {<<>>}]

Returns(out) ==
    /\ ~probe.done
    /\ probe' = [probe EXCEPT !.done = TRUE, !.out = out]
    /\ UNCHANGED <<store, txnSeq, rowsRead, pc, req, file, before, idx, imported,
                   skipped, row_errors, outcomes, pending, resp, prev, qry>>

CallNormalizeDate ==
    /\ probe.fn = "normalize_date"
    /\ Returns(normalize_date(probe.args))

\* the hash of each of two argument tuples, with the string that is hashed
CallGenerateHash ==
    /\ probe.fn = "generate_hash"
    /\ Returns([k \in 1..2 |->
                  LET a == probe.args[k]
                  IN  [hash_string |-> hash_string(a.date, a.description, a.amount,
                                                   a.currency),
                       hash_key    |-> generate_hash(a.date, a.description,
                                                     a.amount, a.currency)]])

CallValidateCsvContent ==
    /\ probe.fn = "validate_csv_content"
    /\ Returns(validate_csv_content(probe.args))

NextFn == CallNormalizeDate \/ CallGenerateHash \/ CallValidateCsvContent

SpecFn == InitFn /\ [][NextFn]_vars

\* -------------------------------------------------------- get_transactions
\* the characters of the date strings in the order of their code points
CodePoints ==
    <<"-", "/", "0", "1", "2", "3", "4", "5", "6", "7", "8", "9", "a", "b">>

ord(c) == CHOOSE i \in 1..Len(CodePoints) : CodePoints[i] = c

\* a < b for two strings, as the store compares them: by the first
\* character that differs, a proper prefix first
RECURSIVE StrLess(_, _)
StrLess(a, b) ==
    IF Len(b) = 0 THEN FALSE
    ELSE IF Len(a) = 0 THEN TRUE
    ELSE IF a[1] # b[1] THEN ord(a[1]) < ord(b[1])
    ELSE StrLess(Tail(a), Tail(b))

StrLeq(a, b) == a = b \/ StrLess(a, b)

\* the day before d
PrevDay(d) ==
    IF d.day > 1 THEN [d EXCEPT !.day = @ - 1]
    ELSE IF d.month > 1
      THEN [year |-> d.year, month |-> d.month - 1,
            day |-> DaysInMonth(d.year, d.month - 1)]
    ELSE [year |-> d.year - 1, month |-> 12, day |-> 31]

\* d - timedelta(days=n)
RECURSIVE MinusDays(_, _)
MinusDays(d, n) == IF n = 0 THEN d ELSE MinusDays(PrevDay(d), n - 1)

WindowDays == 30
MaxLimit == 200

\* an optional query parameter: None, or a string
None == [given |-> FALSE, v |-> <<>>]
Some(v) == [given |-> TRUE, v |-> v]

\* Python truth of an Optional[str]: None and '' are false
Truthy(x) == x.given /\ Len(x.v) > 0

\* lines 224-237: the filter on the date field
BuildQuery(from_date, to_date, now) ==
    IF ~Truthy(from_date) /\ ~Truthy(to_date)
    THEN [gte |-> Some(strftime(MinusDays(now, WindowDays))), lte |-> None]
    ELSE [gte |-> IF Truthy(from_date) THEN Some(from_date.v) ELSE None,
          lte |-> IF Truthy(to_date) THEN Some(to_date.v) ELSE None]

\* a filter whose bounds exclude the bound itself
MatchesExclusive(doc, query) ==
    /\ query.gte.given => StrLess(query.gte.v, doc.date)
    /\ query.lte.given => StrLess(doc.date, query.lte.v)

\* a document matches {"date": {"$gte": ..., "$lte": ...}}
Matches(doc, query) ==
    /\ query.gte.given => StrLeq(query.gte.v, doc.date)
    /\ query.lte.given => StrLeq(doc.date, query.lte.v)

Matching(st, query) == {i \in 1..Len(st) : Matches(st[i], query)}

\* find(query).sort("date", -1): the matching documents by date descending;
\* documents with equal dates come in any order
SortedDesc(st, query) ==
    LET m == Matching(st, query)
    IN  {o \in [1..Cardinality(m) -> m] :
           /\ \A i, j \in 1..Cardinality(m) : i # j => o[i] # o[j]
           /\ \A i, j \in 1..Cardinality(m) :
                i < j => StrLeq(st[o[j]].date, st[o[i]].date)}

\* a page that ignores skip
PageNoSkip(o, skip, limit) ==
    SubSeq(o, 1, IF limit < Len(o) THEN limit ELSE Len(o))

\* .skip(skip).limit(limit) and to_list(length=limit)
Page(o, skip, limit) ==
    LET last == IF skip + limit < Len(o) THEN skip + limit ELSE Len(o)
    IN  SubSeq(o, skip + 1, last)

TransactionResponse(txn) ==
    [id          |-> txn.id,
     date        |-> txn.date,
     description |-> txn.description,
     amount      |-> txn.amount,
     currency    |-> txn.currency,
     balance     |-> txn.balance,
     created_at  |-> txn.created_at]

\* the parameters of the list calls
D_2024_02_01 == <<"2", "0", "2", "4", "-", "0", "2", "-", "0", "1">>
FromDates == {None, Some(<<>>), Some(D_2024_02_01)}
ToDates == {None, Some(D_2024_01_31)}
Pages == {1, 2}
Limits == {1, MaxLimit}
\* page and limit outside the ranges the parameters declare
BadPaging == {<<0, 1>>, <<1, 0>>, <<1, MaxLimit + 1>>}
Todays ==
    {[year |-> 2024, month |-> 3, day |-> 1], [year |-> 2024, month |-> 3, day |-> 2]}
NoDay == [year |-> 0, month |-> 0, day |-> 0]

QueryArgs ==
    [from_date : FromDates, to_date : ToDates, page : Pages, limit : Limits]
    \cup {[from_date |-> None, to_date |-> None, page |-> b[1], limit |-> b[2]] :
            b \in BadPaging}

\* lines 214-240: the call arrives, the parameters are validated, the filter
\* is built and the matching documents are counted
ListCount ==
    /\ qry.pc = "idle"
    /\ \E a \in QueryArgs :
         IF a.page < 1 \/ a.limit < 1 \/ a.limit > MaxLimit
         THEN qry' = [pc |-> "done", args |-> a, now |-> NoDay,
                      query |-> [gte |-> None, lte |-> None], total |-> 0,
                      before |-> <<>>, found |-> <<>>,
                      resp |-> HTTPException(422, <<"validation error">>)]
         ELSE \E now \in IF ~Truthy(a.from_date) /\ ~Truthy(a.to_date)
                          THEN Todays ELSE {NoDay} :
                LET query == BuildQuery(a.from_date, a.to_date, now)
                IN  qry' = [pc |-> "find", args |-> a, now |-> now, query |-> query,
                            total |-> Cardinality(Matching(store, query)),
                            before |-> store, found |-> <<>>, resp |-> NoResp]
    /\ UNCHANGED <<store, txnSeq, rowsRead, pc, req, file, before, idx, imported,
                   skipped, row_errors, outcomes, pending, resp, prev, probe>>

\* lines 243-267: the page is fetched and the response built
ListFind ==
    /\ qry.pc = "find"
    /\ \E o \in SortedDesc(store, qry.query) :
         LET skip         == (qry.args.page - 1) * qry.args.limit
             transactions == Page(o, skip, qry.args.limit)
         IN  qry' = [qry EXCEPT
                       !.pc = "done",
                       !.found = store,
                       !.resp = [status |-> 200,
                                 detail |-> [data  |-> [k \in 1..Len(transactions) |->
                                                          TransactionResponse(
                                                            store[transactions[k]])],
                                             page  |-> qry.args.page,
                                             limit |-> qry.args.limit,
                                             total |-> qry.total]]]
    /\ UNCHANGED <<store, txnSeq, rowsRead, pc, req, file, before, idx, imported,
                   skipped, row_errors, outcomes, pending, resp, prev, probe>>

\* the response is sent
ListReturn ==
    /\ qry.pc = "done"
    /\ qry' = NoQuery
    /\ UNCHANGED <<store, txnSeq, rowsRead, pc, req, file, before, idx, imported,
                   skipped, row_errors, outcomes, pending, resp, prev, probe>>

\* 2024-01-31,a,-3,USD,   (the day of RowA, another amount)
RowA3 == Row(D_2024_01_31, <<"a">>, <<"-", "3">>, USD, <<>>)

QueryRows == {RowA, RowA3, RowB}

QueryFiles ==
    [columns : {AllColumns},
     rows : UNION {[1..n -> QueryRows] : n \in 0..MaxConcRows}]

QueryRequests ==
    [has_key : {TRUE}, key : {ApiKey}, content_type : {TextCsv}, size : {MaxBytes}]

\* uploads one at a time, with list calls at any moment
NextQuery ==
    \/ Step(1, QueryRequests, QueryFiles, MaxTotalQueryRows)
    \/ ListCount
    \/ ListFind
    \/ ListReturn

SpecQuery == Init /\ [][NextQuery]_vars

\* ------------------------------------------------------- claim vocabulary
\* the fields the code extracts from row i of file f (ok, or the exception)
Extracted(f, i) == ExtractRow(f.columns, f.rows[i])

WellFormed(f, i) == Extracted(f, i).ok

KeyOf(f, i) == Extracted(f, i).val.hash_key

StoreKeys(st) == {st[i].hash_key : i \in 1..Len(st)}

Succeeded(r, imp, skp) ==
    r.status = 200 /\ r.detail = [imported |-> imp, skipped |-> skp]

\* every row of f is well formed, the hash keys are pairwise distinct and
\* none of them is in st
FreshValidFile(f, st) ==
    /\ \A i \in 1..Len(f.rows) : WellFormed(f, i) /\ KeyOf(f, i) \notin StoreKeys(st)
    /\ \A i, j \in 1..Len(f.rows) : i # j => KeyOf(f, i) # KeyOf(f, j)

\* the upload that just finished was sent the same file as the one before it
Reupload ==
    /\ pc[1] = "done"
    /\ ReachedLoop(1)
    /\ prev # NoCall
    /\ file[1] = prev.file
    /\ FreshValidFile(prev.file, prev.before)

\* C1: a valid file of K rows with K distinct hash keys, none of them stored,
\* uploads as imported=K, skipped=0; the same file uploaded again right after
\* gives imported=0, skipped=K and leaves the store as it was.
C1_Idempotence ==
    Reupload =>
        /\ Succeeded(prev.resp, Len(prev.file.rows), 0)
        /\ Succeeded(resp[1], 0, Len(file[1].rows))
        /\ store = before[1]

C1_Witness == Reupload /\ Len(file[1].rows) >= 2

\* ----------------------------------------------------------------- C2
NoDuplicateKeys(st) ==
    \A i, j \in 1..Len(st) : st[i].hash_key = st[j].hash_key => i = j

\* the row the loop is about to process is well formed and already stored
AtStoredRow(p) ==
    /\ pc[p] = "loop"
    /\ idx[p] <= Len(file[p].rows)
    /\ WellFormed(file[p], idx[p])
    /\ KeyOf(file[p], idx[p]) \in StoreKeys(store)

\* C2: with uploads executed one at a time the store never holds two records
\* with the same hash_key, and a row whose hash_key is already stored adds one
\* to skipped, inserts nothing, changes no stored record and adds no row error.
C2_DedupUnique ==
    /\ [] NoDuplicateKeys(store)
    /\ [][AtStoredRow(1) =>
            /\ skipped'[1] = skipped[1] + 1
            /\ store' = store
            /\ imported' = imported
            /\ row_errors' = row_errors]_vars

\* a file that repeats a transaction: the second occurrence was skipped
C2_Witness ==
    /\ Len(outcomes[1]) = 2
    /\ outcomes[1][2] = "skipped"
    /\ KeyOf(file[1], 1) = KeyOf(file[1], 2)
    /\ file[1].rows[1] # file[1].rows[2]
    /\ KeyOf(file[1], 1) \notin StoreKeys(before[1])
    /\ Len(store) = Len(before[1]) + 1

\* ----------------------------------------------------------------- C3
HasValidKey(p) == req[p].has_key /\ req[p].key = "dev-key"

\* the request fails one of the three structural checks
WrongMediaType(p) == HasValidKey(p) /\ req[p].content_type \in {TextPlain, <<>>}

Oversized(p) ==
    /\ HasValidKey(p)
    /\ req[p].content_type \in {TextCsv, TextCsvUpper}
    /\ req[p].size > 10485760

MissingColumn(p) ==
    file[p] # NoFile /\ ~({"date", "description", "amount"} \subseteq file[p].columns)

NothingDone(p) ==
    /\ store = before[p]
    /\ outcomes[p] = <<>>
    /\ pending[p] = NoTxn
    /\ imported[p] = 0 /\ skipped[p] = 0 /\ row_errors[p] = <<>>

\* C3: an upload that fails on the content type (415), on the size (413) or on
\* a missing required column (422) processes no row and leaves the store as
\* it was before the call.
C3_StructuralFailure ==
    /\ WrongMediaType(1) => pc[1] = "done" /\ resp[1].status = 415 /\ NothingDone(1)
    /\ Oversized(1) => pc[1] = "done" /\ resp[1].status = 413 /\ NothingDone(1)
    /\ MissingColumn(1) => pc[1] = "done" /\ resp[1].status = 422 /\ NothingDone(1)

\* a file without the amount column whose rows would otherwise be imported,
\* sent to a store that already holds a record
C3_Witness ==
    /\ MissingColumn(1)
    /\ pc[1] = "done"
    /\ Len(store) > 0
    /\ \E i \in 1..Len(file[1].rows) : KeyOf(file[1], i) \notin StoreKeys(store)

\* ----------------------------------------------------------------- C4
\* the outcome the code owes row i of f, given that rows are taken in order
RowRaises(f, i) == ~WellFormed(f, i)

\* C4: past the structural checks every data row is attempted exactly once, in
\* file order; a row that raises is recorded as a row error and the rows after
\* it are still imported or skipped.
C4_RowIsolation ==
    (pc[1] \in {"loop", "insert", "done"} /\ ReachedLoop(1)) =>
        /\ Len(outcomes[1]) = idx[1] - 1
        /\ Len(outcomes[1]) <= Len(file[1].rows)
        /\ pc[1] = "done" => Len(outcomes[1]) = Len(file[1].rows)
        /\ \A i \in 1..Len(outcomes[1]) :
              /\ RowRaises(file[1], i) <=> outcomes[1][i] = "error"
              /\ ~RowRaises(file[1], i) => outcomes[1][i] \in {"imported", "skipped"}
        /\ Len(row_errors[1]) =
              Cardinality({i \in 1..Len(outcomes[1]) : outcomes[1][i] = "error"})

\* a row that fails to parse comes first and the last row is still imported
C4_Witness ==
    /\ pc[1] = "done"
    /\ Len(outcomes[1]) >= 2
    /\ outcomes[1][1] = "error"
    /\ outcomes[1][Len(outcomes[1])] = "imported"
    /\ Len(row_errors[1]) = Len(outcomes[1]) - 1

\* ----------------------------------------------------------------- C5
\* one entry per failing row of f, in file order
RECURSIVE ErrorsFrom(_, _)
ErrorsFrom(f, i) ==
    IF i > Len(f.rows) THEN <<>>
    ELSE (IF WellFormed(f, i) THEN <<>>
          ELSE << [row |-> i + 1, err |-> Extracted(f, i).err] >>)
         \o ErrorsFrom(f, i + 1)

Count(seq, x) == Cardinality({i \in 1..Len(seq) : seq[i] = x})

\* C5: past the structural checks the upload returns the counts if and only
\* if no row produced an error; otherwise it fails with 422 and the error list
\* has exactly one entry per failing row, in file order.
C5_Outcome ==
    (pc[1] = "done" /\ ReachedLoop(1)) =>
        IF ErrorsFrom(file[1], 1) = <<>>
        THEN Succeeded(resp[1], Count(outcomes[1], "imported"),
                       Count(outcomes[1], "skipped"))
        ELSE resp[1].status = 422 /\ resp[1].detail = ErrorsFrom(file[1], 1)

\* two failing rows: the list names row 2, then row 3
C5_Witness ==
    /\ pc[1] = "done"
    /\ ReachedLoop(1)
    /\ resp[1].status = 422
    /\ Len(resp[1].detail) = 2
    /\ resp[1].detail[1].row = 2 /\ resp[1].detail[2].row = 3

\* ----------------------------------------------------------------- C6
FailedWithRowErrors(p) ==
    pc[p] = "done" /\ ReachedLoop(p) /\ resp[p].status = 422

\* the records this upload added to the store
AddedBy(p) == SubSeq(store, Len(before[p]) + 1, Len(store))

\* C6: when an upload fails with row errors, every well-formed row of the file
\* whose hash_key was not stored has been inserted and is still in the store
\* at the failure response, rows after the failing row included.
C6_NoRollback ==
    FailedWithRowErrors(1) =>
        \A i \in 1..Len(file[1].rows) :
            (WellFormed(file[1], i) /\ KeyOf(file[1], i) \notin StoreKeys(before[1]))
                => KeyOf(file[1], i) \in StoreKeys(AddedBy(1))

\* the failing row comes first, the row after it is in the store
C6_Witness ==
    /\ FailedWithRowErrors(1)
    /\ Len(file[1].rows) = 2
    /\ ~WellFormed(file[1], 1)
    /\ WellFormed(file[1], 2)
    /\ KeyOf(file[1], 2) \in StoreKeys(AddedBy(1))

\* ----------------------------------------------------------------- C7
\* g is f with its failing rows replaced by well-formed ones, nothing else
IsCorrection(f, g) ==
    /\ g.columns = f.columns
    /\ Len(g.rows) = Len(f.rows)
    /\ \A i \in 1..Len(f.rows) :
          IF WellFormed(f, i) THEN g.rows[i] = f.rows[i] ELSE WellFormed(g, i)

Resubmitted ==
    /\ pc[1] = "done"
    /\ ReachedLoop(1)
    /\ prev # NoCall
    /\ prev.resp.status = 422
    /\ IsCorrection(prev.file, file[1])

\* C7: after an upload that failed with row errors, uploading the corrected
\* file counts every row the failed upload inserted as skipped, imports only
\* corrected rows, succeeds, and leaves exactly one record per hash_key of the
\* corrected file.
C7_Resubmission ==
    Resubmitted =>
        /\ \A i \in 1..Len(file[1].rows) :
              /\ prev.outcomes[i] = "imported" => outcomes[1][i] = "skipped"
              /\ outcomes[1][i] = "imported" => prev.outcomes[i] = "error"
              /\ Cardinality({j \in 1..Len(store) :
                                store[j].hash_key = KeyOf(file[1], i)}) = 1
        /\ Succeeded(resp[1], Count(outcomes[1], "imported"),
                     Count(outcomes[1], "skipped"))

\* the failed upload inserted one row; the corrected file skips it and imports
\* the corrected row
C7_Witness ==
    /\ Resubmitted
    /\ Count(prev.outcomes, "imported") = 1
    /\ Count(outcomes[1], "skipped") = 1
    /\ Count(outcomes[1], "imported") = 1

\* ----------------------------------------------------------------- C8
\* p is about to insert a record whose hash_key another upload has stored
\* since p looked it up
LateInsert(p) ==
    pc[p] = "insert" /\ pending[p][1].hash_key \in StoreKeys(store)

\* C8: with two uploads interleaved, both can look a hash_key up before either
\* inserts it; the insert that comes second still adds its record, so the
\* store holds the hash_key twice and both uploads count the row as imported.
C8_DedupRace ==
    [][\A p \in Procs :
          (LateInsert(p) /\ pc'[p] # pc[p]) =>
              /\ store' = Append(store, pending[p][1])
              /\ imported'[p] = imported[p] + 1
              /\ skipped'[p] = skipped[p]]_vars

\* both uploads answered imported=1 for the same transaction and the store
\* holds it twice
C8_Witness ==
    /\ pc[1] = "done" /\ pc[2] = "done"
    /\ Succeeded(resp[1], 1, 0) /\ Succeeded(resp[2], 1, 0)
    /\ Len(store) = 2
    /\ store[1].hash_key = store[2].hash_key
    /\ store[1].id # store[2].id

\* ----------------------------------------------------------------- C9
\* C9: a request whose x-api-key header is absent or is not the configured key
\* is rejected with 401 before the pipeline runs: no row is read, the store is
\* unchanged.
C9_Unauthorized ==
    (pc[1] # "idle" /\ ~(req[1].has_key /\ req[1].key = "dev-key")) =>
        /\ pc[1] = "done"
        /\ resp[1].status = 401
        /\ file[1] = NoFile
        /\ NothingDone(1)

\* ---------------------------------------------------------------- C10
\* C10: a data row whose amount cell is empty is recorded as a row error and
\* no Transaction is persisted for it.
C10_AmountRequired ==
    ReachedLoop(1) =>
        /\ \A i \in 1..Len(outcomes[1]) :
              file[1].rows[i].amount = <<>> => outcomes[1][i] = "error"
        /\ \A j \in 1..Len(store) : store[j].amount.kind = "num"

\* ------------------------------------------------------------------ C11
\* a cell that is empty or holds only spaces
IsBlank(cell) == \A i \in 1..Len(cell) : cell[i] = " "

\* C11: every record an upload stores has the currency "USD" when the file has
\* no currency column or the row's currency cell is blank (empty or only
\* whitespace), and the trimmed cell value otherwise.
C11_CurrencyDefault ==
    [][Len(store') > Len(store) =>
         LET cell == file[1].rows[idx[1]].currency
         IN  store'[Len(store')].currency =
               IF "currency" \notin file[1].columns \/ IsBlank(cell)
               THEN <<"U", "S", "D">>
               ELSE strip(cell)]_vars

\* ------------------------------------------------------------------ C12
\* YYYY-MM-DD: four digits, two digits, two digits
IsCanonicalDate(s) ==
    /\ Len(s) = 10
    /\ s[5] = "-" /\ s[8] = "-"
    /\ \A i \in {1, 2, 3, 4, 6, 7, 9, 10} :
         s[i] \in {"0", "1", "2", "3", "4", "5", "6", "7", "8", "9"}

Called(fn) == probe.fn = fn /\ probe.done

\* C12: for every input string normalize_date either returns a string of the
\* form YYYY-MM-DD or fails with "Invalid date format" naming the raw string;
\* a slash-delimited D/M/YYYY input gives YYYY-MM-DD with day and month
\* zero-padded.
C12_CanonicalDate ==
    Called("normalize_date") =>
      /\ \/ probe.out.ok /\ IsCanonicalDate(probe.out.val)
         \/ ~probe.out.ok /\ probe.out.err = <<"Invalid date format", probe.args>>
      /\ probe.args = <<"5", "/", "2", "/", "2", "0", "2", "4">> =>
           probe.out = Ok(<<"2", "0", "2", "4", "-", "0", "2", "-", "0", "5">>)

\* ------------------------------------------------------------------ C13
HashFields == {"date", "description", "amount", "currency"}

Differing(x, y) == {f \in HashFields : x[f] # y[f]}

\* C13: generate_hash called with the same four fields returns the same
\* hash_key, and changing exactly one of the four fields while the other
\* three stay fixed changes the string date|description|amount|currency that
\* is hashed.
C13_DedupPurity ==
    Called("generate_hash") =>
      LET x == probe.args[1]
          y == probe.args[2]
      IN  /\ x = y => probe.out[1].hash_key = probe.out[2].hash_key
          /\ Cardinality(Differing(x, y)) = 1 =>
                probe.out[1].hash_string # probe.out[2].hash_string

\* two calls that differ in the currency alone
C13_Witness ==
    /\ Called("generate_hash")
    /\ Differing(probe.args[1], probe.args[2]) = {"currency"}
    /\ probe.out[1].hash_key # probe.out[2].hash_key

\* ------------------------------------------------------------------ C14
Range(seq) == {seq[i] : i \in 1..Len(seq)}

\* C14: validate_csv_content returns the empty list exactly when date,
\* description and amount are all among the header names (case-sensitive);
\* otherwise it returns one message "Missing required columns" that lists all
\* the missing required columns, each once and no other name; currency and
\* balance never appear in it.
C14_CsvValidator ==
    Called("validate_csv_content") =>
      LET missing == {"date", "description", "amount"} \ probe.args
      IN  /\ probe.out = <<>> <=> missing = {}
          /\ missing # {} =>
                /\ Len(probe.out) = 1
                /\ probe.out[1].msg = "Missing required columns"
                /\ Range(probe.out[1].cols) = missing
                /\ Len(probe.out[1].cols) = Cardinality(missing)
          /\ missing = {"amount"} =>
                probe.out = << [msg |-> "Missing required columns",
                                cols |-> <<"amount">>] >>

\* a header with Date and AMOUNT in the wrong case and without currency
C14_Witness ==
    /\ Called("validate_csv_content")
    /\ probe.args = {"Date", "description", "AMOUNT", "balance"}
    /\ Len(probe.out) = 1
    /\ probe.out[1].cols = <<"date", "amount">>

\* ------------------------------------------------------------------ C15
\* a list call has answered with a page
Listed == qry.pc = "done" /\ qry.resp.status = 200

\* thirty days before the two days on which the model lists
ThirtyDaysBefore(now) ==
    IF now = [year |-> 2024, month |-> 3, day |-> 1]
    THEN <<"2", "0", "2", "4", "-", "0", "1", "-", "3", "1">>
    ELSE <<"2", "0", "2", "4", "-", "0", "2", "-", "0", "1">>

\* the positions in st of the records the claim says a call with arguments a
\* made on the day now matches; a bound is given when it is a non-empty string
Expected(st, a, now) ==
    LET from_given == a.from_date.given /\ a.from_date.v # <<>>
        to_given   == a.to_date.given /\ a.to_date.v # <<>>
    IN  IF ~from_given /\ ~to_given
        THEN {i \in 1..Len(st) : StrLeq(ThirtyDaysBefore(now), st[i].date)}
        ELSE {i \in 1..Len(st) :
                /\ from_given => StrLeq(a.from_date.v, st[i].date)
                /\ to_given => StrLeq(st[i].date, a.to_date.v)}

Ids(st, I) == {st[i].id : i \in I}

\* C15: the records a list call matches are, when neither from_date nor
\* to_date is given, exactly the stored records dated on or after today minus
\* 30 days; when a bound is given, exactly the stored records within every
\* given bound, bounds included, with no default window, dates compared as
\* strings. The total counts them and the pages are drawn from them.
C15_DateFilter ==
    Listed =>
      LET data  == qry.resp.detail.data
          found == Expected(qry.found, qry.args, qry.now)
      IN  /\ qry.resp.detail.total =
                Cardinality(Expected(qry.before, qry.args, qry.now))
          /\ {data[k].id : k \in 1..Len(data)} \subseteq Ids(qry.found, found)
          /\ qry.args.page = 1 /\ qry.args.limit >= Cardinality(found) =>
                {data[k].id : k \in 1..Len(data)} = Ids(qry.found, found)

\* a call with to_date = 2024-01-31 alone over a record of that day and a
\* later one
C15_Witness ==
    /\ Listed
    /\ qry.args.from_date = None
    /\ qry.args.to_date = Some(<<"2", "0", "2", "4", "-", "0", "1", "-", "3", "1">>)
    /\ Len(qry.found) = 2
    /\ qry.resp.detail.total = 1
    /\ Len(qry.resp.detail.data) = 1

\* ------------------------------------------------------------------ C16
\* C16: when the store is the same at the count and at the fetch, a list call
\* with page >= 1 and 1 <= limit <= 200 returns min(limit, remaining) of the
\* matching records after the first (page-1)*limit in descending date order,
\* never more than limit, echoes page and limit, and total is the number of
\* all matching records.
C16_Pagination ==
    Listed /\ qry.before = qry.found =>
      LET st     == qry.found
          d      == qry.resp.detail
          M      == Matching(st, qry.query)
          n      == Cardinality(M)
          skip   == (qry.args.page - 1) * qry.args.limit
          remain == IF n > skip THEN n - skip ELSE 0
      IN  /\ d.page = qry.args.page /\ d.limit = qry.args.limit
          /\ d.total = n
          /\ Len(d.data) = IF qry.args.limit < remain THEN qry.args.limit ELSE remain
          /\ Len(d.data) <= qry.args.limit
          /\ \A k \in 1..Len(d.data) :
                /\ \E i \in M : d.data[k] = TransactionResponse(st[i])
                /\ Cardinality({i \in M : StrLess(d.data[k].date, st[i].date)})
                     <= skip + k - 1
                /\ Cardinality({i \in M : StrLeq(d.data[k].date, st[i].date)})
                     >= skip + k
          /\ \A k, l \in 1..Len(d.data) : k # l => d.data[k].id # d.data[l].id

\* page 2 with limit 1 over two matches of different days: the older one
C16_Witness ==
    /\ Listed /\ qry.before = qry.found
    /\ qry.args.page = 2 /\ qry.args.limit = 1
    /\ qry.resp.detail.total = 2
    /\ Len(qry.resp.detail.data) = 1
    /\ \E i \in 1..Len(qry.found) :
         StrLess(qry.resp.detail.data[1].date, qry.found[i].date)

\* ------------------------------------------------------------------ C19
\* C19: no step of an upload or of a list call changes or removes a stored
\* record: every record of the store is in the store after the step with the
\* same id, date, description, amount, currency, balance, created_at and
\* hash_key, the number of records never drops, and the steps of a list call
\* leave the store as it is.
C19_CreateOnly ==
    [][/\ \A i \in 1..Len(store) : \E j \in 1..Len(store') : store'[j] = store[i]
       /\ Len(store') >= Len(store)
       /\ qry' # qry => store' = store]_vars

\* a list call answered between two inserts
C19_Witness ==
    /\ Listed
    /\ Len(qry.found) = 1
    /\ Len(store) = 2
    /\ store[1] = qry.found[1]

\* ------------------------------------------------------------------ C17
DeclaredCsv(p) ==
    HasValidKey(p) /\ req[p].content_type \in {TextCsv, TextCsvUpper}

\* C17: an upload with a valid key whose content type contains 'csv' and
\* whose file is larger than 10 MiB (10485760 bytes) fails with 413 before the
\* file is read; a file of exactly 10 MiB or less is not rejected for its
\* size and goes on to be read.
C17_SizeCap ==
    /\ (DeclaredCsv(1) /\ req[1].size > 10485760) =>
          pc[1] = "done" /\ resp[1].status = 413 /\ file[1] = NoFile
    /\ (DeclaredCsv(1) /\ req[1].size <= 10485760) =>
          resp[1].status # 413 /\ (pc[1] = "read" \/ file[1] # NoFile)

\* a file one byte over the limit, sent after a file of exactly the limit
\* was imported
C17_Witness ==
    /\ DeclaredCsv(1)
    /\ req[1].size = 10485761
    /\ resp[1].status = 413
    /\ prev # NoCall /\ prev.resp.status = 200
    /\ Len(store) > 0

\* ------------------------------------------------------------------ C18
StoreCallFailed(p) ==
    \E k \in 1..Len(row_errors[p]) : row_errors[p][k].err = <<"store failure">>

\* C18: an upload during which a store call (the hash_key lookup or the
\* insert) failed ends with InternalFailure, HTTP 500.
C18_InternalFailure ==
    (pc[1] = "done" /\ StoreCallFailed(1)) => resp[1].status = 500

\* ------------------------------------------------------------------ C20
InLoop(p) == pc[p] \in {"loop", "insert", "done"} /\ ReachedLoop(p)

\* the zero-based positions of the rows that have failed so far
FailedPositions(p) ==
    {i - 1 : i \in {j \in 1..Len(outcomes[p]) : outcomes[p][j] = "error"}}

\* C20: the error recorded for the data row at zero-based position i carries
\* the row number i + 2, and the errors of different rows carry different
\* numbers.
C20_RowNumbering ==
    InLoop(1) =>
      /\ {row_errors[1][k].row : k \in 1..Len(row_errors[1])} =
            {i + 2 : i \in FailedPositions(1)}
      /\ \A k, l \in 1..Len(row_errors[1]) :
            k # l => row_errors[1][k].row # row_errors[1][l].row

\* the first data row is imported and the second fails: its error is Row 3
C20_Witness ==
    /\ InLoop(1)
    /\ outcomes[1] = <<"imported", "error">>
    /\ Len(row_errors[1]) = 1
    /\ row_errors[1][1].row = 3

\* ------------------------------------------------------------------ C21
\* C21: in an upload that passed the structural checks every data row taken
\* so far has ended in exactly one of imported, skipped and row error, so at
\* the end of the row loop imported + skipped + the number of row errors is
\* the number of data rows; and the number of records the upload has added to
\* the store is its imported count.
C21_RowAccounting ==
    InLoop(1) =>
      /\ imported[1] + skipped[1] + Len(row_errors[1]) = idx[1] - 1
      /\ pc[1] = "done" =>
            imported[1] + skipped[1] + Len(row_errors[1]) = Len(file[1].rows)
      /\ Len(store) - Len(before[1]) = imported[1]

\* a two-row upload to a store that holds one of the rows: one skipped, one
\* imported
C21_Witness ==
    /\ InLoop(1) /\ pc[1] = "done"
    /\ Len(before[1]) = 1
    /\ imported[1] = 1 /\ skipped[1] = 1 /\ row_errors[1] = <<>>
    /\ Len(store) = 2

\* ------------------------------------------------------------------ C22
\* the record has the four fields the row was reduced to
SameFields(r, f) ==
    /\ r.date = f.date
    /\ r.description = f.description
    /\ r.amount = f.amount
    /\ r.currency = f.currency

\* C22: a row is skipped as a duplicate only if the store already holds a
\* record whose normalized date, description, amount and currency are all
\* identical to the row's, fields that contain the '|' separator included.
C22_NoFalseDuplicates ==
    AtStoredRow(1) =>
      \E i \in 1..Len(store) :
         SameFields(store[i], Extracted(file[1], idx[1]).val)
====
